---- MODULE Spec2Model ----
(***************************************************************************)
(* TryRecipe: the page controllers Feed, Profile and CreateRecipe, the     *)
(* requests they have in flight against the hosted backend, and the parts  *)
(* of the backend (recipes table, image bucket, row-level policies) their  *)
(* requests act on.                                                        *)
(*                                                                         *)
(* Strings are sequences of one-character strings, so that toLowerCase,    *)
(* includes, trim, length and parseInt are computed, not assumed.          *)
(* One page controller is mounted per behaviour (variable page); an        *)
(* asynchronous call is a record in a sequence of requests in flight: it   *)
(* is "sent" until the backend has processed it and carries the reply      *)
(* ("ok"/"err") until the awaiting continuation has run.                   *)
(***************************************************************************)
EXTENDS Integers, Sequences, FiniteSets, TLC

VARIABLES
  page,          \* the page controller this behaviour mounts
  location,      \* the router's current route
  user,          \* useAuth().user: a user id or NoUser
  authLoading,   \* useAuth().loading
  db,            \* public.recipes, in created_at-descending order
  recipes,       \* Feed / Profile: useState<Recipe[]>
  loading,       \* Feed / Profile: useState(true)
  searchQuery,   \* Feed: useState('')
  fetches,       \* Feed / Profile: list fetches in flight
  deletes,       \* Profile: delete requests in flight
  toast,         \* the last notification shown ("none" when none yet)
  issued,        \* requests the page has issued so far
  deletedOk,     \* history: ids whose delete completed successfully on the mounted Profile
  name,          \* CreateRecipe: useState('')
  ingredients,   \* CreateRecipe: useState<string[]>([''])
  instructions,  \* CreateRecipe: useState<string[]>([''])
  cookingTime,   \* CreateRecipe: useState('')
  category,      \* CreateRecipe: useState('')
  image,         \* CreateRecipe: useState<File | null>(null)
  isLoading,     \* CreateRecipe: useState(false)
  errors,        \* CreateRecipe: useState<Record<string, string>>({})
  sub,           \* CreateRecipe: the handleSubmit call past validation, if any
  storage,       \* the object keys in bucket recipe-images
  now,           \* Date.now()
  edits,         \* form edits made so far
  authUsers,     \* auth.users
  profiles,      \* public.profiles
  dbOps,         \* statements the database has executed so far
  request        \* the last statement: who asked for what

formVars == <<name, ingredients, instructions, cookingTime, category, image,
              isLoading, errors, sub, storage, now, edits>>

listVars == <<recipes, loading, searchQuery, fetches, deletes, deletedOk>>

accountVars == <<authUsers, profiles, dbOps, request>>

vars == <<page, location, user, authLoading, db, recipes, loading,
          searchQuery, fetches, deletes, toast, issued, deletedOk, formVars,
          accountVars>>

----------------------------------------------------------------------------
(* Bounds *)

MaxRecipes == 2     \* rows in public.recipes at page load
MaxQueryLen == 2    \* characters typed into the search box
MaxFeedFetches == 1 \* list fetches a Feed instance issues in a behaviour
MaxRequests == 3    \* requests a Profile instance issues in a behaviour
MaxEdits == 5       \* field edits made to one CreateRecipe form
MaxEntries == 2     \* entries in the ingredients or the instructions list
MaxSubmits == 2     \* valid submissions of one CreateRecipe form
MaxDbOps == 4       \* statements the database executes in a behaviour

----------------------------------------------------------------------------
(* Values *)

NoUser == "none"
Users == {"u1", "u2"}
Sessions == Users \cup {NoUser}
CreateSessions == {"u1", NoUser}

Chars == {"a", "A", "b"}

RECURSIVE StringsUpTo(_)
StringsUpTo(n) ==
  IF n = 0 THEN {<<>>}
  ELSE LET S == StringsUpTo(n - 1)
       IN S \cup {Append(s, c) : s \in {t \in S : Len(t) = n - 1}, c \in Chars}

\* The values of a text input one keystroke after it held s.
Keystrokes(s, max) ==
  {Append(s, c) : c \in IF Len(s) < max THEN Chars ELSE {}}
    \cup (IF s = <<>> THEN {} ELSE {SubSeq(s, 1, Len(s) - 1)})

\* Recipe names present in the table at page load.
NameCatalogue == {<<"A", "b">>, <<"a", "B", "A">>}

Route(p) == CASE p = "feed" -> "/"
              [] p = "profile" -> "/profile"
              [] p = "create" -> "/create"

Mounted == location = Route(page)

RemoveAt(s, i) == [j \in 1..(Len(s) - 1) |-> IF j < i THEN s[j] ELSE s[j + 1]]

\* Tables of at most MaxRecipes rows, names from ns, owners from us; the
\* primary key of the row in position i is i.
Tables(ns, us) ==
  {t \in UNION {[1..n -> [id : 1..n, name : ns, user_id : us]] : n \in 0..MaxRecipes} :
     \A i \in 1..Len(t) : t[i].id = i}

----------------------------------------------------------------------------
(* JavaScript values that are no strings (null is also SQL's NULL) *)

Null == [null |-> TRUE]
Undefined == [undefined |-> TRUE]
NaN == [nan |-> TRUE]
Num(n) == [num |-> n]

----------------------------------------------------------------------------
(* Backend: identities and profiles *)

\* COALESCE(a, b)
Coalesce(a, b) == IF a # Null THEN a ELSE b

\* A nullable text column holds NULL or a text.
Text(s) == [text |-> s]

\* The characters of s up to the first d, all of s when there is none.
RECURSIVE UpToFirst(_, _)
UpToFirst(s, d) ==
  IF s = <<>> \/ Head(s) = d THEN <<>>
  ELSE <<Head(s)>> \o UpToFirst(Tail(s), d)

\* split_part(v, d, 1); NULL for NULL.
SplitPart1(v, d) == IF v = Null THEN Null ELSE Text(UpToFirst(v.text, d))

\* A row of auth.users; username is raw_user_meta_data->>'username', NULL
\* when the signup supplied none.
AuthUser(id, email, username) ==
  [id |-> id, email |-> email, raw_user_meta_data |-> [username |-> username]]

\* The values handle_new_user inserts into public.profiles.
handle_new_user(new) ==
  [user_id |-> new.id,
   username |-> Coalesce(new.raw_user_meta_data.username, SplitPart1(new.email, "@"))]

ProfileRow(id, values) ==
  [id |-> id, user_id |-> values.user_id, username |-> values.username]

AuthIds == {authUsers[i].id : i \in 1..Len(authUsers)}
ProfileUserIds == {profiles[i].user_id : i \in 1..Len(profiles)}

EmailOf(id) == Text(IF id = "u1" THEN <<"a", "@", "x">> ELSE <<"b", "b", "@", "x">>)

NoRequest == [op |-> "none", caller |-> NoUser]

\* The accounts behind the sessions the pages see: every user has signed up
\* with an email and no username.
SignedUp ==
  /\ authUsers = <<AuthUser("u1", EmailOf("u1"), Null),
                    AuthUser("u2", EmailOf("u2"), Null)>>
  /\ profiles = [i \in 1..Len(authUsers) |-> ProfileRow(i, handle_new_user(authUsers[i]))]
  /\ dbOps = 0
  /\ request = NoRequest

----------------------------------------------------------------------------
(* CreateRecipe: pure functions *)

NameMin == 3
NameMax == 100

IsSpace(c) == c = " "

RECURSIVE TrimStart(_)
TrimStart(s) == IF s # <<>> /\ IsSpace(Head(s)) THEN TrimStart(Tail(s)) ELSE s

RECURSIVE TrimEnd(_)
TrimEnd(s) ==
  IF s # <<>> /\ IsSpace(s[Len(s)]) THEN TrimEnd(SubSeq(s, 1, Len(s) - 1)) ELSE s

Trim(s) == TrimEnd(TrimStart(s))

\* A slip: the entries are compared without trim().
CleanedNoTrim(list) == SelectSeq(list, LAMBDA e : e # <<>>)

\* list.filter(i => i.trim() !== '')
Cleaned(list) == SelectSeq(list, LAMBDA e : Trim(e) # <<>>)

DigitChars == <<"0", "1", "2", "3", "4", "5", "6", "7", "8", "9">>

IsDigit(c) == \E d \in 1..10 : DigitChars[d] = c

DigitValue(c) == (CHOOSE d \in 1..10 : DigitChars[d] = c) - 1

\* The value of the longest prefix of digits of s, read after acc.
RECURSIVE ParseDigits(_, _)
ParseDigits(s, acc) ==
  IF s # <<>> /\ IsDigit(Head(s))
  THEN ParseDigits(Tail(s), 10 * acc + DigitValue(Head(s)))
  ELSE acc

\* parseInt(s): leading white space, an optional sign, then digits up to the
\* first character that is none; NaN when there is no digit.
ParseInt(s) ==
  LET t == TrimStart(s)
      signed == t # <<>> /\ Head(t) \in {"-", "+"}
      body == IF signed THEN Tail(t) ELSE t
  IN IF body = <<>> \/ ~IsDigit(Head(body)) THEN NaN
     ELSE IF signed /\ Head(t) = "-" THEN Num(0 - ParseDigits(body, 0))
     ELSE Num(ParseDigits(body, 0))

Issue(path, message) == [path |-> path, message |-> message]

\* A slip: max(100) taken as "fewer than 100".
SafeParseExclusiveMax(input) ==
  (IF Len(input.name) < NameMin
   THEN <<Issue(<<"name">>, "Recipe name must be at least 3 characters")>>
   ELSE IF Len(input.name) >= NameMax
   THEN <<Issue(<<"name">>, "Recipe name too long")>>
   ELSE <<>>)
    \o (IF Len(input.ingredients) < 1
        THEN <<Issue(<<"ingredients">>, "Add at least one ingredient")>> ELSE <<>>)
    \o (IF Len(input.instructions) < 1
        THEN <<Issue(<<"instructions">>, "Add at least one instruction")>> ELSE <<>>)
    \o (IF input.cookingTime = NaN
        THEN <<Issue(<<"cookingTime">>, "Expected number, received nan")>> ELSE <<>>)

\* recipeSchema.safeParse(input): the issues, in the order of the schema's
\* keys; the empty sequence when the input conforms.
SafeParse(input) ==
  LET nameIssues ==
        IF Len(input.name) < NameMin
        THEN <<Issue(<<"name">>, "Recipe name must be at least 3 characters")>>
        ELSE IF Len(input.name) > NameMax
        THEN <<Issue(<<"name">>, "Recipe name too long")>>
        ELSE <<>>
      ListIssues(field, list, message) ==
        (IF Len(list) < 1 THEN <<Issue(<<field>>, message)>> ELSE <<>>)
          \o [k \in 1..Cardinality({i \in 1..Len(list) : Len(list[i]) < 1}) |->
                Issue(<<field, CHOOSE i \in 1..Len(list) :
                          /\ Len(list[i]) < 1
                          /\ Cardinality({m \in 1..i : Len(list[m]) < 1}) = k>>,
                      "String must contain at least 1 character(s)")]
      timeIssues ==
        IF input.cookingTime = NaN
        THEN <<Issue(<<"cookingTime">>, "Expected number, received nan")>>
        ELSE <<>>
  IN nameIssues
       \o ListIssues("ingredients", input.ingredients, "Add at least one ingredient")
       \o ListIssues("instructions", input.instructions, "Add at least one instruction")
       \o timeIssues

\* The object handleSubmit hands to safeParse.
SchemaInput(f) ==
  [name |-> f.name,
   ingredients |-> Cleaned(f.ingredients),
   instructions |-> Cleaned(f.instructions),
   cookingTime |-> IF f.cookingTime # <<>> THEN ParseInt(f.cookingTime) ELSE Undefined,
   category |-> IF f.category # <<>> THEN f.category ELSE Undefined]

NoErrors == [f \in {} |-> ""]

\* result.error.errors.forEach: fieldErrors[err.path[0]] = err.message for
\* the issues whose path[0] is truthy; a later issue overwrites an earlier.
RECURSIVE FieldErrors(_)
FieldErrors(issues) ==
  IF issues = <<>> THEN NoErrors
  ELSE LET rest == FieldErrors(SubSeq(issues, 1, Len(issues) - 1))
           err == issues[Len(issues)]
       IN IF Len(err.path) >= 1 /\ err.path[1] # ""
          THEN [f \in DOMAIN rest \cup {err.path[1]} |->
                  IF f = err.path[1] THEN err.message ELSE rest[f]]
          ELSE rest

\* `${user.id}/${Date.now()}.${fileExt}`
FileName(uid, t, file) == [owner |-> uid, time |-> t, ext |-> file.ext]

\* storage.from('recipe-images').getPublicUrl(fileName)
PublicUrl(fileName) == [bucket |-> "recipe-images", key |-> fileName]

\* A slip: the lists are inserted as entered, not as cleaned.
InsertPayloadRawLists(uid, f, imageUrl) ==
  [user_id |-> uid,
   name |-> f.name,
   image_url |-> imageUrl,
   ingredients |-> f.ingredients,
   instructions |-> f.instructions,
   cooking_time |-> IF f.cookingTime # <<>> THEN ParseInt(f.cookingTime) ELSE Null,
   category |-> IF f.category # <<>> THEN f.category ELSE Null]

\* The record handleSubmit inserts, from the values its closure holds.
InsertPayload(uid, f, imageUrl) ==
  [user_id |-> uid,
   name |-> f.name,
   image_url |-> imageUrl,
   ingredients |-> Cleaned(f.ingredients),
   instructions |-> Cleaned(f.instructions),
   cooking_time |-> IF f.cookingTime # <<>> THEN ParseInt(f.cookingTime) ELSE Null,
   category |-> IF f.category # <<>> THEN f.category ELSE Null]

----------------------------------------------------------------------------
(* CreateRecipe: state and operations *)

Str(n, c) == [i \in 1..n |-> c]

\* What the user types or pastes into the fields.
NameInputs == {Str(n, "a") : n \in {NameMin - 1, NameMin, NameMax, NameMax + 1}}
EntryInputs == {<<>>, <<" ">>, <<"a">>, <<" ", "b">>}
StepInputs == {<<>>, <<" ">>, <<"s">>}
TimeInputs == {<<>>, <<"2", "0">>, <<"-", "5">>, <<".", "5">>}
CategoryInputs == {<<"S", "o", "u", "p">>}
FileInputs == {[ext |-> "jpg"]}

\* The values of the render handleSubmit was called in.
Form == [name |-> name, ingredients |-> ingredients, instructions |-> instructions,
         cookingTime |-> cookingTime, category |-> category, image |-> image]

NoForm == [name |-> <<>>, ingredients |-> <<>>, instructions |-> <<>>,
           cookingTime |-> <<>>, category |-> <<>>, image |-> Null]

Idle == [pc |-> "idle", user |-> NoUser, form |-> NoForm, fileName |-> Null,
         caller |-> NoUser, payload |-> Null]

FormInit ==
  /\ name = <<>> /\ ingredients = <<<<>>>> /\ instructions = <<<<>>>>
  /\ cookingTime = <<>> /\ category = <<>> /\ image = Null
  /\ isLoading = FALSE /\ errors = NoErrors /\ sub = Idle
  /\ storage = {} /\ now = 0 /\ edits = 0

ListInit ==
  /\ recipes = <<>> /\ loading = TRUE /\ searchQuery = <<>>
  /\ fetches = <<>> /\ deletes = <<>> /\ deletedOk = {}

----------------------------------------------------------------------------
(* Pure functions of Feed *)

ToLowerChar(c) == CASE c = "A" -> "a" [] c = "B" -> "b" [] OTHER -> c

ToLowerCase(s) == [i \in 1..Len(s) |-> ToLowerChar(s[i])]

\* String.prototype.includes: scan the start positions left to right.
RECURSIVE IncludesFrom(_, _, _)
IncludesFrom(s, q, k) ==
  IF k + Len(q) > Len(s) THEN FALSE
  ELSE IF \A j \in 1..Len(q) : s[k + j] = q[j] THEN TRUE
  ELSE IncludesFrom(s, q, k + 1)

\* A slip: only the first start position is tried (startsWith).
IncludesPrefixOnly(s, q) ==
  /\ Len(q) <= Len(s)
  /\ \A j \in 1..Len(q) : s[j] = q[j]

Includes(s, q) == IncludesFrom(s, q, 0)

FeedMatches(r, q) == Includes(ToLowerCase(r.name), ToLowerCase(q))

filteredRecipes == SelectSeq(recipes, LAMBDA r : FeedMatches(r, searchQuery))

----------------------------------------------------------------------------
(* Backend: select *)

\* select * from recipes [where user_id = uid] order by created_at desc
SelectRecipes(uid) ==
  IF uid = NoUser THEN db ELSE SelectSeq(db, LAMBDA r : r.user_id = uid)

FetchReply(i) ==
  /\ i \in 1..Len(fetches)
  /\ fetches[i].stage = "sent"
  /\ \E ok \in BOOLEAN :
       fetches' = [fetches EXCEPT ![i] =
                     IF ok THEN [@ EXCEPT !.stage = "ok", !.data = SelectRecipes(fetches[i].uid)]
                     ELSE [@ EXCEPT !.stage = "err"]]
  /\ UNCHANGED <<formVars, page, accountVars, location, user, authLoading, db, recipes, loading,
                 searchQuery, deletes, toast, issued, deletedOk>>

\* A slip: on an error the list held so far is kept.
FetchDoneKeepsOnError(i) ==
  /\ i \in 1..Len(fetches)
  /\ fetches[i].stage # "sent"
  /\ fetches' = RemoveAt(fetches, i)
  /\ IF Mounted
     THEN /\ recipes' = IF fetches[i].stage = "err" THEN recipes ELSE fetches[i].data
          /\ loading' = FALSE
     ELSE UNCHANGED <<recipes, loading>>
  /\ UNCHANGED <<formVars, page, accountVars, location, user, authLoading, db, searchQuery, deletes,
                 toast, issued, deletedOk>>

\* The continuation of fetchRecipes / fetchUserRecipes after its await.
FetchDone(i) ==
  /\ i \in 1..Len(fetches)
  /\ fetches[i].stage # "sent"
  /\ fetches' = RemoveAt(fetches, i)
  /\ IF Mounted
     THEN /\ recipes' = IF fetches[i].stage = "err" THEN <<>> ELSE fetches[i].data
          /\ loading' = FALSE
     ELSE UNCHANGED <<recipes, loading>>
  /\ UNCHANGED <<formVars, page, accountVars, location, user, authLoading, db, searchQuery, deletes,
                 toast, issued, deletedOk>>

NewFetch(uid) == [uid |-> uid, stage |-> "sent", data |-> <<>>]

----------------------------------------------------------------------------
(* Feed *)

\* useAuth publishes a session; Feed's two effects run on the new values.
FeedSession(u) ==
  /\ page = "feed" /\ Mounted
  /\ authLoading \/ u # user
  /\ authLoading' = FALSE
  /\ user' = u
  /\ location' = IF u = NoUser THEN "/auth" ELSE location
  /\ IF u # NoUser /\ u # user
     THEN /\ issued < MaxFeedFetches
          /\ issued' = issued + 1
          /\ loading' = TRUE
          /\ fetches' = Append(fetches, NewFetch(NoUser))
     ELSE UNCHANGED <<loading, fetches, issued>>
  /\ UNCHANGED <<formVars, page, accountVars, db, recipes, searchQuery, deletes, toast, deletedOk>>

\* Header: the Profile menu item and Sign out leave the page.
FeedLeave ==
  /\ page = "feed" /\ Mounted /\ ~authLoading
  /\ location' = "/profile"
  /\ UNCHANGED <<formVars, page, accountVars, user, authLoading, db, recipes, loading, searchQuery,
                 fetches, deletes, toast, issued, deletedOk>>

\* Header's search input: onSearchChange = setSearchQuery, called with the
\* input's value after a keystroke (one character typed or erased).
FeedSearch(q) ==
  /\ page = "feed" /\ Mounted /\ ~authLoading
  /\ q \in Keystrokes(searchQuery, MaxQueryLen)
  /\ searchQuery' = q
  /\ UNCHANGED <<formVars, page, accountVars, location, user, authLoading, db, recipes, loading,
                 fetches, deletes, toast, issued, deletedOk>>

FeedInit ==
  /\ page = "feed"
  /\ location = "/"
  /\ user = NoUser /\ authLoading = TRUE
  /\ db \in Tables(NameCatalogue, {"u1"})
  /\ toast = "none" /\ issued = 0
  /\ ListInit
  /\ FormInit
  /\ SignedUp

FeedNext ==
  \/ \E u \in Sessions : FeedSession(u)
  \/ \E q \in StringsUpTo(MaxQueryLen) : FeedSearch(q)
  \/ FeedLeave
  \/ \E i \in 1..Len(fetches) : FetchReply(i)
  \/ \E i \in 1..Len(fetches) : FetchDone(i)

SpecFeed == FeedInit /\ [][FeedNext]_vars

----------------------------------------------------------------------------
(* Profile *)

Ids(rs) == {rs[i].id : i \in 1..Len(rs)}

\* useAuth publishes a session; Profile's two effects run on the new values.
ProfileSession(u) ==
  /\ page = "profile" /\ Mounted
  /\ authLoading \/ u # user
  /\ authLoading' = FALSE
  /\ user' = u
  /\ location' = IF u = NoUser THEN "/auth" ELSE location
  /\ IF u # NoUser /\ u # user
     THEN /\ issued < MaxRequests
          /\ issued' = issued + 1
          /\ loading' = TRUE
          /\ fetches' = Append(fetches, NewFetch(u))
     ELSE UNCHANGED <<loading, fetches, issued>>
  /\ UNCHANGED <<formVars, page, accountVars, db, recipes, searchQuery, deletes, toast, deletedOk>>

\* "Back to Feed" and "Create Recipe".
ProfileLeave(to) ==
  /\ page = "profile" /\ Mounted /\ ~authLoading
  /\ location' = to
  /\ UNCHANGED <<formVars, page, accountVars, user, authLoading, db, recipes, loading, searchQuery,
                 fetches, deletes, toast, issued, deletedOk>>

\* handleDeleteRecipe up to its await: the request is sent; the closure holds
\* the recipes of the render whose card was clicked.
ProfileDelete(id) ==
  /\ page = "profile" /\ Mounted /\ ~authLoading /\ ~loading
  /\ id \in Ids(recipes)
  /\ issued < MaxRequests
  /\ issued' = issued + 1
  /\ deletes' = Append(deletes, [recipeId |-> id, recipes |-> recipes,
                                 caller |-> user, stage |-> "sent"])
  /\ UNCHANGED <<formVars, page, accountVars, location, user, authLoading, db, recipes, loading,
                 searchQuery, fetches, toast, deletedOk>>

\* A slip: the policy is written like the bucket's (any signed-in caller).
MayDeleteAuthenticated(caller, row) == caller # NoUser

\* The policy "Users can delete their own recipes".
MayDelete(caller, row) == caller = row.user_id

\* A slip: the filter .eq('id', recipeId) is missing.
DeleteReplyNoIdFilter(i) ==
  /\ i \in 1..Len(deletes)
  /\ deletes[i].stage = "sent"
  /\ \E ok \in BOOLEAN :
       /\ deletes' = [deletes EXCEPT ![i].stage = IF ok THEN "ok" ELSE "err"]
       /\ db' = IF ok
                THEN SelectSeq(db, LAMBDA r : ~MayDelete(deletes[i].caller, r))
                ELSE db
  /\ UNCHANGED <<formVars, page, accountVars, location, user, authLoading, recipes, loading,
                 searchQuery, fetches, toast, issued, deletedOk>>

\* delete from recipes where id = recipeId, under row-level security; or the
\* request fails (network, server) and changes nothing.
DeleteReply(i) ==
  /\ i \in 1..Len(deletes)
  /\ deletes[i].stage = "sent"
  /\ \E ok \in BOOLEAN :
       /\ deletes' = [deletes EXCEPT ![i].stage = IF ok THEN "ok" ELSE "err"]
       /\ db' = IF ok
                THEN SelectSeq(db, LAMBDA r :
                       ~(r.id = deletes[i].recipeId /\ MayDelete(deletes[i].caller, r)))
                ELSE db
  /\ UNCHANGED <<formVars, page, accountVars, location, user, authLoading, recipes, loading,
                 searchQuery, fetches, toast, issued, deletedOk>>

\* A slip: the recipe is dropped from the view whatever the reply.
DeleteDoneDropsOnError(i) ==
  /\ i \in 1..Len(deletes)
  /\ deletes[i].stage # "sent"
  /\ deletes' = RemoveAt(deletes, i)
  /\ toast' = IF deletes[i].stage = "err" THEN "delete_error" ELSE "deleted"
  /\ recipes' = SelectSeq(deletes[i].recipes, LAMBDA r : r.id # deletes[i].recipeId)
  /\ UNCHANGED <<formVars, page, accountVars, location, user, authLoading, db, loading, searchQuery,
                 fetches, issued, deletedOk>>

\* handleDeleteRecipe after its await.
DeleteDone(i) ==
  /\ i \in 1..Len(deletes)
  /\ deletes[i].stage # "sent"
  /\ deletes' = RemoveAt(deletes, i)
  /\ IF deletes[i].stage = "err"
     THEN /\ toast' = "delete_error"
          /\ UNCHANGED <<recipes, deletedOk>>
     ELSE /\ toast' = "deleted"
          /\ IF Mounted
             THEN /\ recipes' = SelectSeq(deletes[i].recipes,
                                          LAMBDA r : r.id # deletes[i].recipeId)
                  /\ deletedOk' = deletedOk \cup {deletes[i].recipeId}
             ELSE UNCHANGED <<recipes, deletedOk>>
  /\ UNCHANGED <<formVars, page, accountVars, location, user, authLoading, db, loading, searchQuery,
                 fetches, issued>>

ProfileInit ==
  /\ page = "profile"
  /\ location = "/profile"
  /\ user = NoUser /\ authLoading = TRUE
  /\ db \in Tables({<<"B">>}, Users)
  /\ toast = "none" /\ issued = 0
  /\ ListInit
  /\ FormInit
  /\ SignedUp

ProfileNext ==
  \/ \E u \in Sessions : ProfileSession(u)
  \/ \E to \in {"/", "/create"} : ProfileLeave(to)
  \/ \E id \in 1..MaxRecipes : ProfileDelete(id)
  \/ \E i \in 1..Len(fetches) : FetchReply(i)
  \/ \E i \in 1..Len(fetches) : FetchDone(i)
  \/ \E i \in 1..Len(deletes) : DeleteReply(i)
  \/ \E i \in 1..Len(deletes) : DeleteDone(i)

SpecProfile == ProfileInit /\ [][ProfileNext]_vars

----------------------------------------------------------------------------
(* CreateRecipe: operations *)

\* The form is on screen and the user has edits left.
CanEdit ==
  /\ page = "create" /\ Mounted /\ ~authLoading
  /\ edits < MaxEdits
  /\ edits' = edits + 1

createFixed == <<page, accountVars, location, user, authLoading, db, toast, issued, listVars>>

setName(v) ==
  /\ CanEdit
  /\ name' = v
  /\ UNCHANGED <<createFixed, ingredients, instructions, cookingTime, category,
                 image, isLoading, errors, sub, storage, now>>

setCookingTime(v) ==
  /\ CanEdit
  /\ cookingTime' = v
  /\ UNCHANGED <<createFixed, name, ingredients, instructions, category,
                 image, isLoading, errors, sub, storage, now>>

setCategory(v) ==
  /\ CanEdit
  /\ category' = v
  /\ UNCHANGED <<createFixed, name, ingredients, instructions, cookingTime,
                 image, isLoading, errors, sub, storage, now>>

handleImageChange(file) ==
  /\ CanEdit
  /\ image' = file
  /\ UNCHANGED <<createFixed, name, ingredients, instructions, cookingTime,
                 category, isLoading, errors, sub, storage, now>>

AddEntry(list) == Append(list, <<>>)

\* A slip: the length is not looked at.
RemoveEntryUnguarded(list, index) ==
  [j \in 1..Cardinality({i \in 1..Len(list) : i # index}) |->
     list[CHOOSE i \in 1..Len(list) :
            i # index /\ Cardinality({m \in 1..i : m # index}) = j]]

RemoveEntry(list, index) ==
  IF Len(list) > 1
  THEN [j \in 1..Cardinality({i \in 1..Len(list) : i # index}) |->
          list[CHOOSE i \in 1..Len(list) :
                 i # index /\ Cardinality({m \in 1..i : m # index}) = j]]
  ELSE list

UpdateEntry(list, index, value) == [list EXCEPT ![index] = value]

addIngredient ==
  /\ CanEdit
  /\ Len(ingredients) < MaxEntries
  /\ ingredients' = AddEntry(ingredients)
  /\ UNCHANGED <<createFixed, name, instructions, cookingTime, category,
                 image, isLoading, errors, sub, storage, now>>

removeIngredient(index) ==
  /\ CanEdit
  /\ index \in 1..Len(ingredients)
  /\ ingredients' = RemoveEntry(ingredients, index)
  /\ UNCHANGED <<createFixed, name, instructions, cookingTime, category,
                 image, isLoading, errors, sub, storage, now>>

updateIngredient(index, value) ==
  /\ CanEdit
  /\ index \in 1..Len(ingredients)
  /\ ingredients' = UpdateEntry(ingredients, index, value)
  /\ UNCHANGED <<createFixed, name, instructions, cookingTime, category,
                 image, isLoading, errors, sub, storage, now>>

addInstruction ==
  /\ CanEdit
  /\ Len(instructions) < MaxEntries
  /\ instructions' = AddEntry(instructions)
  /\ UNCHANGED <<createFixed, name, ingredients, cookingTime, category,
                 image, isLoading, errors, sub, storage, now>>

removeInstruction(index) ==
  /\ CanEdit
  /\ index \in 1..Len(instructions)
  /\ instructions' = RemoveEntry(instructions, index)
  /\ UNCHANGED <<createFixed, name, ingredients, cookingTime, category,
                 image, isLoading, errors, sub, storage, now>>

updateInstruction(index, value) ==
  /\ CanEdit
  /\ index \in 1..Len(instructions)
  /\ instructions' = UpdateEntry(instructions, index, value)
  /\ UNCHANGED <<createFixed, name, ingredients, cookingTime, category,
                 image, isLoading, errors, sub, storage, now>>

\* A slip: the effect that redirects is missing.
CreateSessionNoRedirect(u) ==
  /\ page = "create" /\ Mounted
  /\ authLoading \/ u # user
  /\ authLoading' = FALSE
  /\ user' = u
  /\ UNCHANGED <<formVars, page, accountVars, location, db, toast, issued, listVars>>

\* useAuth publishes a session; CreateRecipe's effect runs on the new values.
CreateSession(u) ==
  /\ page = "create" /\ Mounted
  /\ authLoading \/ u # user
  /\ authLoading' = FALSE
  /\ user' = u
  /\ location' = IF u = NoUser THEN "/auth" ELSE location
  /\ UNCHANGED <<formVars, page, accountVars, db, toast, issued, listVars>>

\* "Back to Profile".
CreateLeave ==
  /\ page = "create" /\ Mounted /\ ~authLoading
  /\ location' = "/profile"
  /\ UNCHANGED <<formVars, page, accountVars, user, authLoading, db, toast, issued, listVars>>

\* A slip: setIsLoading(true) runs before the validation, whose early return
\* leaves it set.
handleSubmitLoadsFirst ==
  /\ page = "create" /\ Mounted /\ ~authLoading
  /\ ~isLoading
  /\ IF user = NoUser
     THEN UNCHANGED <<errors, isLoading, sub, now, issued>>
     ELSE LET result == SafeParse(SchemaInput(Form))
          IN IF result # <<>>
             THEN /\ errors' = FieldErrors(result)
                  /\ isLoading' = TRUE
                  /\ UNCHANGED <<sub, now, issued>>
             ELSE /\ issued < MaxSubmits
                  /\ issued' = issued + 1
                  /\ errors' = NoErrors
                  /\ isLoading' = TRUE
                  /\ now' = now + 1
                  /\ sub' = IF image # Null
                            THEN [pc |-> "upload_sent", user |-> user, form |-> Form,
                                  fileName |-> FileName(user, now', image),
                                  caller |-> user, payload |-> Null]
                            ELSE [pc |-> "insert_sent", user |-> user, form |-> Form,
                                  fileName |-> Null, caller |-> user,
                                  payload |-> InsertPayload(user, Form, Null)]
  /\ UNCHANGED <<page, accountVars, location, user, authLoading, db, toast, listVars, name,
                 ingredients, instructions, cookingTime, category, image,
                 storage, edits>>

\* A slip: the submit button is not disabled while isLoading.
handleSubmitNotDisabled ==
  /\ page = "create" /\ Mounted /\ ~authLoading
  /\ IF user = NoUser
     THEN UNCHANGED <<errors, isLoading, sub, now, issued>>
     ELSE LET result == SafeParse(SchemaInput(Form))
          IN IF result # <<>>
             THEN /\ errors' = FieldErrors(result)
                  /\ UNCHANGED <<isLoading, sub, now, issued>>
             ELSE /\ issued < MaxSubmits
                  /\ issued' = issued + 1
                  /\ errors' = NoErrors
                  /\ isLoading' = TRUE
                  /\ now' = now + 1
                  /\ sub' = IF image # Null
                            THEN [pc |-> "upload_sent", user |-> user, form |-> Form,
                                  fileName |-> FileName(user, now', image),
                                  caller |-> user, payload |-> Null]
                            ELSE [pc |-> "insert_sent", user |-> user, form |-> Form,
                                  fileName |-> Null, caller |-> user,
                                  payload |-> InsertPayload(user, Form, Null)]
  /\ UNCHANGED <<page, accountVars, location, user, authLoading, db, toast, listVars, name,
                 ingredients, instructions, cookingTime, category, image,
                 storage, edits>>

\* handleSubmit up to its first await (or its early return). The submit
\* button is disabled while isLoading.
handleSubmit ==
  /\ page = "create" /\ Mounted /\ ~authLoading
  /\ ~isLoading
  /\ IF user = NoUser
     THEN UNCHANGED <<errors, isLoading, sub, now, issued>>
     ELSE LET result == SafeParse(SchemaInput(Form))
          IN IF result # <<>>
             THEN /\ errors' = FieldErrors(result)
                  /\ UNCHANGED <<isLoading, sub, now, issued>>
             ELSE /\ issued < MaxSubmits
                  /\ issued' = issued + 1
                  /\ errors' = NoErrors
                  /\ isLoading' = TRUE
                  /\ now' = now + 1
                  /\ sub' = IF image # Null
                            THEN [pc |-> "upload_sent", user |-> user, form |-> Form,
                                  fileName |-> FileName(user, now', image),
                                  caller |-> user, payload |-> Null]
                            ELSE [pc |-> "insert_sent", user |-> user, form |-> Form,
                                  fileName |-> Null, caller |-> user,
                                  payload |-> InsertPayload(user, Form, Null)]
  /\ UNCHANGED <<page, accountVars, location, user, authLoading, db, toast, listVars, name,
                 ingredients, instructions, cookingTime, category, image,
                 storage, edits>>

\* The bucket stores the object, or the upload fails.
UploadReply ==
  /\ sub.pc = "upload_sent"
  /\ \E ok \in BOOLEAN :
       /\ sub' = [sub EXCEPT !.pc = IF ok THEN "upload_ok" ELSE "upload_err"]
       /\ storage' = IF ok THEN storage \cup {sub.fileName} ELSE storage
  /\ UNCHANGED <<createFixed, name, ingredients, instructions, cookingTime,
                 category, image, isLoading, errors, now, edits>>

\* A slip: uploadError is not looked at.
UploadDoneIgnoresError ==
  /\ sub.pc \in {"upload_ok", "upload_err"}
  /\ sub' = [sub EXCEPT !.pc = "insert_sent", !.caller = user,
                !.payload = InsertPayload(sub.user, sub.form, PublicUrl(sub.fileName))]
  /\ UNCHANGED <<page, accountVars, location, user, authLoading, db, toast, issued, listVars,
                 name, ingredients, instructions, cookingTime, category, image,
                 isLoading, errors, storage, now, edits>>

\* handleSubmit after the upload's await: throw into catch/finally on an
\* error, otherwise resolve the public URL and send the insert.
UploadDone ==
  /\ sub.pc \in {"upload_ok", "upload_err"}
  /\ IF sub.pc = "upload_err"
     THEN /\ toast' = "create_error"
          /\ sub' = Idle
          /\ isLoading' = IF Mounted THEN FALSE ELSE isLoading
     ELSE /\ sub' = [sub EXCEPT !.pc = "insert_sent", !.caller = user,
                       !.payload = InsertPayload(sub.user, sub.form,
                                                 PublicUrl(sub.fileName))]
          /\ UNCHANGED <<toast, isLoading>>
  /\ UNCHANGED <<page, accountVars, location, user, authLoading, db, issued, listVars, name,
                 ingredients, instructions, cookingTime, category, image,
                 errors, storage, now, edits>>

\* The policy "Authenticated users can create recipes".
MayInsert(caller, row) == caller = row.user_id

\* insert into recipes under row-level security; or the request fails.
InsertReply ==
  /\ sub.pc = "insert_sent"
  /\ \E ok \in BOOLEAN :
       LET accepted == ok /\ MayInsert(sub.caller, sub.payload)
       IN /\ sub' = [sub EXCEPT !.pc = IF accepted THEN "insert_ok" ELSE "insert_err"]
          /\ db' = IF accepted THEN <<sub.payload>> \o db ELSE db
  /\ UNCHANGED <<page, accountVars, location, user, authLoading, toast, issued, listVars, name,
                 ingredients, instructions, cookingTime, category, image,
                 isLoading, errors, storage, now, edits>>

\* A compensating step: the catch block removes the object it uploaded.
InsertDoneRemovesUpload ==
  /\ sub.pc \in {"insert_ok", "insert_err"}
  /\ IF sub.pc = "insert_err"
     THEN /\ toast' = "create_error"
          /\ storage' = storage \ {sub.fileName}
          /\ UNCHANGED location
     ELSE /\ toast' = "created"
          /\ location' = "/profile"
          /\ UNCHANGED storage
  /\ sub' = Idle
  /\ isLoading' = IF Mounted THEN FALSE ELSE isLoading
  /\ UNCHANGED <<page, accountVars, user, authLoading, db, issued, listVars, name,
                 ingredients, instructions, cookingTime, category, image,
                 errors, now, edits>>

\* A slip: setIsLoading(false) sits at the end of the try block, not in a
\* finally.
InsertDoneKeepsLoading ==
  /\ sub.pc \in {"insert_ok", "insert_err"}
  /\ IF sub.pc = "insert_err"
     THEN /\ toast' = "create_error"
          /\ UNCHANGED <<location, isLoading>>
     ELSE /\ toast' = "created"
          /\ location' = "/profile"
          /\ isLoading' = IF Mounted THEN FALSE ELSE isLoading
  /\ sub' = Idle
  /\ UNCHANGED <<page, accountVars, user, authLoading, db, issued, listVars, name,
                 ingredients, instructions, cookingTime, category, image,
                 errors, storage, now, edits>>

\* handleSubmit after the insert's await.
InsertDone ==
  /\ sub.pc \in {"insert_ok", "insert_err"}
  /\ IF sub.pc = "insert_err"
     THEN /\ toast' = "create_error"
          /\ UNCHANGED location
     ELSE /\ toast' = "created"
          /\ location' = "/profile"
  /\ sub' = Idle
  /\ isLoading' = IF Mounted THEN FALSE ELSE isLoading
  /\ UNCHANGED <<page, accountVars, user, authLoading, db, issued, listVars, name,
                 ingredients, instructions, cookingTime, category, image,
                 errors, storage, now, edits>>

CreateInit ==
  /\ page = "create"
  /\ location = "/create"
  /\ user = NoUser /\ authLoading = TRUE
  /\ db = <<>>
  /\ toast = "none" /\ issued = 0
  /\ ListInit
  /\ FormInit
  /\ SignedUp

CreateNext ==
  \/ \E u \in CreateSessions : CreateSession(u)
  \/ CreateLeave
  \/ \E v \in NameInputs : setName(v)
  \/ \E v \in TimeInputs : setCookingTime(v)
  \/ \E v \in CategoryInputs : setCategory(v)
  \/ \E f \in FileInputs : handleImageChange(f)
  \/ addIngredient
  \/ \E i \in 1..MaxEntries : removeIngredient(i)
  \/ \E i \in 1..MaxEntries, v \in EntryInputs : updateIngredient(i, v)
  \/ addInstruction
  \/ \E i \in 1..MaxEntries : removeInstruction(i)
  \/ \E i \in 1..MaxEntries, v \in StepInputs : updateInstruction(i, v)
  \/ handleSubmit
  \/ UploadReply
  \/ UploadDone
  \/ InsertReply
  \/ InsertDone

SpecCreate == CreateInit /\ [][CreateNext]_vars

\* Every request a submission has sent is answered, and the continuation
\* awaiting an answer runs (the event loop delivers a settled promise).
CreateFairness ==
  /\ WF_vars(UploadReply) /\ WF_vars(UploadDone)
  /\ WF_vars(InsertReply) /\ WF_vars(InsertDone)

\* The form with one value that validates and one that does not for the
\* name, and one value for every other field: which of a submission's steps
\* follow does not depend on more.
CreateLiveNext ==
  \/ \E u \in CreateSessions : CreateSession(u)
  \/ CreateLeave
  \/ \E v \in {n \in NameInputs : Len(n) <= NameMin} : setName(v)
  \/ \E v \in {<<"2", "0">>} : setCookingTime(v)
  \/ \E v \in CategoryInputs : setCategory(v)
  \/ \E f \in FileInputs : handleImageChange(f)
  \/ addIngredient
  \/ \E i \in 1..MaxEntries : removeIngredient(i)
  \/ \E i \in 1..MaxEntries, v \in {<<"a">>} : updateIngredient(i, v)
  \/ addInstruction
  \/ \E i \in 1..MaxEntries : removeInstruction(i)
  \/ \E i \in 1..MaxEntries, v \in {<<"s">>} : updateInstruction(i, v)
  \/ handleSubmit
  \/ UploadReply
  \/ UploadDone
  \/ InsertReply
  \/ InsertDone

SpecCreateLive == CreateInit /\ [][CreateLiveNext]_vars /\ CreateFairness

----------------------------------------------------------------------------
(* The three pages together: a behaviour mounts one of them *)

Init == FeedInit \/ ProfileInit \/ CreateInit

Next == FeedNext \/ ProfileNext \/ CreateNext

Spec == Init /\ [][Next]_vars

----------------------------------------------------------------------------
(* The database: auth.users, public.profiles and public.recipes with their *)
(* constraints, trigger and row-level policies. A statement arrives with   *)
(* the identity of its caller (auth.uid(); NoUser for the anonymous key);  *)
(* a statement that violates a constraint or a WITH CHECK changes nothing. *)

pageVars == <<page, location, user, authLoading, recipes, loading, searchQuery,
              fetches, deletes, toast, issued, deletedOk, formVars>>

Callers == Users \cup {NoUser}
\* raw_user_meta_data->>'username' or a username column value: absent, a
\* name, the empty string.
UsernameInputs == <<Null, Text(<<"n">>), Text(<<>>)>>
EmailInputs(id) == <<EmailOf(id), Null>>
RecipeNameInputs == {<<"B">>}

\* The database takes one more statement.
Statement(req) ==
  /\ page = "backend"
  /\ dbOps < MaxDbOps
  /\ dbOps' = dbOps + 1
  /\ request' = req
  /\ UNCHANGED pageVars

\* insert into auth.users, with the trigger on_auth_user_created in the
\* same transaction: profiles.username is NOT NULL and profiles.user_id is
\* UNIQUE, and a violation aborts the signup.
SignUp(id, email, username) ==
  LET row == AuthUser(id, email, username)
      values == handle_new_user(row)
      accepted == values.username # Null /\ values.user_id \notin ProfileUserIds
  IN /\ Statement([op |-> "signup", caller |-> NoUser, id |-> id])
     /\ id \notin AuthIds
     /\ authUsers' = IF accepted THEN Append(authUsers, row) ELSE authUsers
     /\ profiles' = IF accepted THEN Append(profiles, ProfileRow(dbOps', values))
                    ELSE profiles
     /\ UNCHANGED db

\* delete from auth.users where id = ..., by the auth service: profiles and
\* recipes reference auth.users ON DELETE CASCADE.
DeleteUser(id) ==
  /\ Statement([op |-> "delete_user", caller |-> "service", id |-> id])
  /\ id \in AuthIds
  /\ authUsers' = SelectSeq(authUsers, LAMBDA a : a.id # id)
  /\ profiles' = SelectSeq(profiles, LAMBDA p : p.user_id # id)
  /\ db' = SelectSeq(db, LAMBDA r : r.user_id # id)

\* The policy "Users can insert their own profile".
MayInsertProfile(caller, row) == caller = row.user_id

\* insert into profiles (user_id, username) through the API.
InsertProfile(caller, uid, username) ==
  LET values == [user_id |-> uid, username |-> username]
      accepted == /\ MayInsertProfile(caller, values)
                  /\ uid \in AuthIds
                  /\ uid \notin ProfileUserIds
                  /\ username # Null
  IN /\ Statement([op |-> "insert_profile", caller |-> caller, id |-> uid])
     /\ profiles' = IF accepted THEN Append(profiles, ProfileRow(dbOps', values))
                    ELSE profiles
     /\ UNCHANGED <<authUsers, db>>

\* The policy "Users can update their own profile".
MayUpdateProfile(caller, row) == caller = row.user_id

\* update profiles set username = ... where user_id = uid, through the API.
UpdateProfile(caller, uid, username) ==
  LET hit(p) == p.user_id = uid /\ MayUpdateProfile(caller, p)
      accepted == username # Null
  IN /\ Statement([op |-> "update_profile", caller |-> caller, id |-> uid])
     /\ profiles' = IF accepted
                    THEN [i \in 1..Len(profiles) |->
                            IF hit(profiles[i])
                            THEN [profiles[i] EXCEPT !.username = username]
                            ELSE profiles[i]]
                    ELSE profiles
     /\ UNCHANGED <<authUsers, db>>

\* delete from profiles where user_id = uid through the API: profiles has
\* no DELETE policy, so no row is visible to the statement.
DeleteProfile(caller, uid) ==
  /\ Statement([op |-> "delete_profile", caller |-> caller, id |-> uid])
  /\ UNCHANGED <<authUsers, profiles, db>>
\* A slip: recipes_profiles_fkey is missing.
HasOwnerIdentityOnly(row) == row.user_id \in AuthIds

\* recipes.user_id references auth.users(id) and profiles(user_id).
HasOwner(row) == row.user_id \in AuthIds /\ row.user_id \in ProfileUserIds

\* insert into recipes (user_id, name) through the API; the new row is the
\* first in created_at-descending order.
InsertRecipe(caller, uid, recipeName) ==
  LET row == [id |-> dbOps', name |-> recipeName, user_id |-> uid]
      accepted == MayInsert(caller, row) /\ HasOwner(row)
  IN /\ Statement([op |-> "insert_recipe", caller |-> caller, id |-> row.id,
                   user_id |-> uid])
     /\ db' = IF accepted THEN <<row>> \o db ELSE db
     /\ UNCHANGED <<authUsers, profiles>>

\* delete from recipes where id = ... through the API.
DeleteRecipe(caller, id) ==
  /\ Statement([op |-> "delete_recipe", caller |-> caller, id |-> id])
  /\ id \in Ids(db)
  /\ db' = SelectSeq(db, LAMBDA r : ~(r.id = id /\ MayDelete(caller, r)))
  /\ UNCHANGED <<authUsers, profiles>>

\* The policy "Users can update their own recipes": USING, and with no WITH
\* CHECK of its own the same expression is checked on the new row.
MayUpdate(caller, row) == caller = row.user_id

\* update recipes set name = ..., user_id = ... where id = ... through the
\* API.
UpdateRecipe(caller, id, recipeName, uid) ==
  LET hit(r) == r.id = id /\ MayUpdate(caller, r)
      New(r) == [r EXCEPT !.name = recipeName, !.user_id = uid]
      accepted == \A i \in 1..Len(db) :
                    hit(db[i]) => (MayUpdate(caller, New(db[i])) /\ HasOwner(New(db[i])))
  IN /\ Statement([op |-> "update_recipe", caller |-> caller, id |-> id,
                   user_id |-> uid])
     /\ id \in Ids(db)
     /\ db' = IF accepted
              THEN [i \in 1..Len(db) |-> IF hit(db[i]) THEN New(db[i]) ELSE db[i]]
              ELSE db
     /\ UNCHANGED <<authUsers, profiles>>

\* delete from profiles where user_id = uid with the service role, which
\* bypasses row-level security: recipes_profiles_fkey cascades.
DeleteProfileRow(uid) ==
  /\ Statement([op |-> "delete_profile_row", caller |-> "service", id |-> uid])
  /\ uid \in ProfileUserIds
  /\ profiles' = SelectSeq(profiles, LAMBDA p : p.user_id # uid)
  /\ db' = SelectSeq(db, LAMBDA r : r.user_id # uid)
  /\ UNCHANGED authUsers

DbInit ==
  /\ page = "backend"
  /\ location = "/"
  /\ user = NoUser /\ authLoading = TRUE
  /\ db = <<>>
  /\ toast = "none" /\ issued = 0
  /\ ListInit
  /\ FormInit
  /\ authUsers = <<>> /\ profiles = <<>>
  /\ dbOps = 0 /\ request = NoRequest

\* Signups, account deletions and the statements the API accepts.
DbNext ==
  \/ \E id \in Users, n \in 1..Len(UsernameInputs), e \in 1..Len(EmailInputs("u1")) :
       SignUp(id, EmailInputs(id)[e], UsernameInputs[n])
  \/ \E id \in Users : DeleteUser(id)
  \/ \E c \in Callers, uid \in Users, n \in 1..Len(UsernameInputs) :
       InsertProfile(c, uid, UsernameInputs[n])
  \/ \E c \in Callers, uid \in Users, n \in 1..Len(UsernameInputs) :
       UpdateProfile(c, uid, UsernameInputs[n])
  \/ \E c \in Callers, uid \in Users : DeleteProfile(c, uid)
  \/ \E c \in Callers, uid \in Users, n \in RecipeNameInputs : InsertRecipe(c, uid, n)
  \/ \E c \in Callers, id \in 1..MaxDbOps : DeleteRecipe(c, id)
  \/ \E c \in Callers, id \in 1..MaxDbOps, n \in {<<"A", "b">>}, uid \in Users :
       UpdateRecipe(c, id, n, uid)

SpecDb == DbInit /\ [][DbNext]_vars

\* The same with the service role deleting profile rows.
DbAdminNext == DbNext \/ \E uid \in Users : DeleteProfileRow(uid)

SpecDbAdmin == DbInit /\ [][DbAdminNext]_vars

----------------------------------------------------------------------------
(* Claims *)

\* The recipes a query selects, stated without the scan: some window of the
\* lower-cased name equals the lower-cased query.
NameHasQuery(n, q) ==
  \E k \in 0..(Len(n) - Len(q)) : SubSeq(n, k + 1, k + Len(q)) = q

WantedPositions ==
  {i \in 1..Len(recipes) :
     NameHasQuery(ToLowerCase(recipes[i].name), ToLowerCase(searchQuery))}

\* C1: Feed's visible list holds exactly the recipes whose lower-cased name
\* contains the lower-cased query, in fetched order; the empty query shows
\* the whole fetched list.
C1_FilterExact ==
  page = "feed" =>
    /\ Len(filteredRecipes) = Cardinality(WantedPositions)
    /\ \A j \in 1..Len(filteredRecipes) :
         filteredRecipes[j] =
           recipes[CHOOSE i \in WantedPositions :
                     Cardinality({m \in WantedPositions : m <= i}) = j]
    /\ (searchQuery = <<>> => filteredRecipes = recipes)

\* Two recipes fetched, a query with an upper-case letter that keeps one.
C1_Witness ==
  /\ page = "feed"
  /\ Len(recipes) = 2
  /\ Len(filteredRecipes) = 1
  /\ searchQuery # ToLowerCase(searchQuery)

\* C2: on the mounted Profile, a recipe whose delete has completed
\* successfully is absent from the recipes view state ever after.
C2_DeletedStaysAbsent ==
  (page = "profile" /\ Mounted) => \A id \in deletedOk : id \notin Ids(recipes)

\* C7: when a delete completes with an error the recipes view state is what
\* it was and the error notification is shown.
C7_DeleteErrorKeepsView ==
  [][\A i \in 1..Len(deletes) :
       (deletes[i].stage = "err" /\ deletes' = RemoveAt(deletes, i))
         => (recipes' = recipes /\ toast' = "delete_error")]_vars

\* A delete has failed on a Profile that still shows recipes.
C7_Witness ==
  /\ page = "profile" /\ Mounted
  /\ toast = "delete_error"
  /\ recipes # <<>>

\* C9: on the mounted Profile with no fetch in flight, every recipe in the
\* view state belongs to the authenticated user.
C9_ViewIsOwn ==
  (page = "profile" /\ Mounted /\ fetches = <<>> /\ user # NoUser)
    => \A i \in 1..Len(recipes) : recipes[i].user_id = user

\* C3: with an image the insert is sent only once the upload has succeeded;
\* a failed upload or insert ends the submission with the error
\* notification, without navigation and without a row persisted; the
\* submission navigates, to /profile, only after a successful insert.
C3_UploadThenInsert ==
  [][/\ (sub'.pc = "insert_sent" /\ sub.pc # "insert_sent") =>
          \/ /\ sub.pc = "idle"
             /\ sub'.form.image = Null
             /\ sub'.payload.image_url = Null
          \/ /\ sub.pc = "upload_ok"
             /\ sub.form.image # Null
             /\ sub.fileName \in storage
             /\ sub'.payload.image_url = PublicUrl(sub.fileName)
     /\ (sub.pc \in {"upload_err", "insert_err"} /\ sub' # sub) =>
          /\ sub'.pc = "idle"
          /\ toast' = "create_error"
          /\ location' = location
          /\ db' = db
     /\ db' # db => (sub.pc = "insert_sent" /\ sub'.pc = "insert_ok")
     /\ (sub.pc = "insert_sent" /\ sub'.pc = "insert_err") => db' = db
     /\ (sub' # sub /\ location' # location) =>
          (sub.pc = "insert_ok" /\ location' = "/profile")
     /\ (sub.pc = "insert_ok" /\ sub' # sub) => location' = "/profile"]_vars

\* An insert is in flight that carries the URL of the image just uploaded.
C3_Witness ==
  /\ sub.pc = "insert_sent"
  /\ sub.payload.image_url # Null
  /\ sub.fileName \in storage

\* C4: a submission that fails validation stores a non-empty set of field
\* errors, sends neither an upload nor an insert, and leaves isLoading false.
C4_InvalidStopsLocally ==
  [][(handleSubmit /\ user # NoUser /\ SafeParse(SchemaInput(Form)) # <<>>) =>
       /\ DOMAIN errors' # {}
       /\ sub' = Idle /\ sub = Idle
       /\ issued' = issued
       /\ storage' = storage /\ db' = db
       /\ ~isLoading /\ ~isLoading']_vars

\* Field errors are stored and the form never sent anything.
C4_Witness ==
  /\ page = "create"
  /\ DOMAIN errors # {}
  /\ issued = 0
  /\ sub = Idle /\ ~isLoading

\* C5: a name of fewer than 3 or more than 100 characters is rejected before
\* anything is sent; a name of 3 to 100 characters raises no name error.
C5_NameLength ==
  [][(handleSubmit /\ user # NoUser) =>
       /\ (Len(name) < 3 \/ Len(name) > 100) =>
            /\ "name" \in DOMAIN errors'
            /\ sub' = Idle /\ sub = Idle
            /\ issued' = issued
       /\ (Len(name) >= 3 /\ Len(name) <= 100) => "name" \notin DOMAIN errors']_vars

\* A name of 101 characters has been rejected.
C5_Witness ==
  /\ Len(name) = 101
  /\ "name" \in DOMAIN errors
  /\ issued = 0

\* An entry is blank when it holds nothing but white space.
Blank(e) == \A i \in 1..Len(e) : e[i] = " "

NonBlankPositions(list) == {i \in 1..Len(list) : ~Blank(list[i])}

\* sent holds the non-blank entries of list, in the order of list.
IsNonBlankPart(sent, list) ==
  /\ Len(sent) = Cardinality(NonBlankPositions(list))
  /\ \A j \in 1..Len(sent) :
       sent[j] = list[CHOOSE i \in NonBlankPositions(list) :
                        Cardinality({m \in NonBlankPositions(list) : m <= i}) = j]

\* C6: a submission whose ingredients (or instructions) are all blank is
\* rejected and sends nothing; otherwise the lists sent in the insert are the
\* non-blank entries of the submitted form's lists, in their order.
C6_NonBlankEntries ==
  [][/\ (handleSubmit /\ user # NoUser
          /\ (NonBlankPositions(ingredients) = {}
               \/ NonBlankPositions(instructions) = {})) =>
          /\ sub' = Idle /\ sub = Idle
          /\ issued' = issued
          /\ DOMAIN errors' \cap {"ingredients", "instructions"} # {}
     /\ sub'.payload # Null =>
          /\ sub'.payload.ingredients # <<>>
          /\ IsNonBlankPart(sub'.payload.ingredients, sub'.form.ingredients)
          /\ sub'.payload.instructions # <<>>
          /\ IsNonBlankPart(sub'.payload.instructions, sub'.form.instructions)]_vars

\* An insert was sent for a form whose second ingredient is the only
\* non-blank one, the first being white space.
C6_Witness ==
  /\ sub.payload # Null
  /\ Len(sub.form.ingredients) = 2
  /\ sub.form.ingredients[1] = <<" ">>
  /\ Len(sub.payload.ingredients) = 1

IssuesFetch == Len(fetches') > Len(fetches)
IssuesUpload == sub'.pc = "upload_sent" /\ sub.pc # "upload_sent"
IssuesInsert == sub'.pc = "insert_sent" /\ sub.pc # "insert_sent"
StartsSubmission == sub.pc = "idle" /\ sub'.pc # "idle"

\* The session has just turned out to be absent on the mounted page.
SessionFoundAbsent ==
  /\ Mounted
  /\ ~authLoading' /\ user' = NoUser
  /\ authLoading \/ user # NoUser

\* C8 as stated: when loading has finished without a user the page
\* redirects to /auth, and no query, upload, insert or submission is issued
\* while there is no authenticated user.
C8_NothingIssuedWithoutUser ==
  [][/\ SessionFoundAbsent => location' = "/auth"
     /\ (IssuesFetch \/ IssuesUpload \/ IssuesInsert \/ StartsSubmission)
          => user' # NoUser]_vars

\* C8 as amended: when loading has finished without a user the page
\* redirects to /auth; no query or upload is issued and no submission is
\* started while there is no authenticated user; an insert is issued only by
\* a submission that an authenticated user started, and carries that user's
\* id (the session may have ended since).
C8_NothingStartedWithoutUser ==
  [][/\ SessionFoundAbsent => location' = "/auth"
     /\ (IssuesFetch \/ IssuesUpload \/ StartsSubmission) => user' # NoUser
     /\ IssuesInsert =>
          /\ sub'.user # NoUser
          /\ sub'.payload.user_id = sub'.user
          /\ sub.pc = "idle" => user' = sub'.user]_vars

\* The page has redirected to /auth and the pending submission sends its
\* insert with no user signed in.
C8_Witness ==
  /\ location = "/auth"
  /\ user = NoUser /\ ~authLoading
  /\ sub.pc = "insert_sent"

ErrReplies(fs) == Cardinality({i \in 1..Len(fs) : fs[i].stage = "err"})

\* C10: when a list fetch completes with an error on the mounted Feed or
\* Profile, the recipes view state becomes empty, loading becomes false, and
\* no fetch is issued in its place.
C10_FetchErrorEmptiesView ==
  [][(Mounted /\ ErrReplies(fetches') < ErrReplies(fetches)) =>
       /\ recipes' = <<>>
       /\ loading' = FALSE
       /\ Len(fetches') = Len(fetches) - 1
       /\ issued' = issued]_vars

\* The only fetch issued has completed, the table has rows for it, and the
\* view is empty and no longer loading.
C10_Witness ==
  /\ page \in {"feed", "profile"} /\ Mounted
  /\ issued = 1 /\ fetches = <<>>
  /\ ~loading /\ recipes = <<>>
  /\ SelectRecipes(IF page = "feed" THEN NoUser ELSE user) # <<>>

fields == <<name, ingredients, instructions, cookingTime, category, image>>

Submitting == sub.pc # "idle"

\* C11: the form is Submitting (isLoading true) exactly while a valid
\* submission's upload or insert is pending; Submitting is entered only from
\* Editing by a submit whose validation passes, an invalid submit stays in
\* Editing with the errors set, a failed request returns to Editing, a
\* successful insert navigates to /profile; neither Invalid nor Failed changes
\* the entered field values; and every submission whose requests are
\* answered leaves Submitting, with isLoading false again on the mounted
\* form.
C11_FormStateMachine ==
  /\ []((page = "create" /\ Mounted) => (isLoading <=> Submitting))
  /\ [][/\ (~Submitting /\ Submitting') =>
            /\ Mounted /\ ~isLoading /\ isLoading'
            /\ SafeParse(SchemaInput(Form)) = <<>>
            /\ errors' = NoErrors
            /\ UNCHANGED fields
        /\ (~Submitting /\ ~Submitting' /\ errors' # errors) =>
            /\ SafeParse(SchemaInput(Form)) # <<>>
            /\ errors' # NoErrors
            /\ UNCHANGED <<fields, isLoading, location>>
        /\ (Submitting /\ Submitting') =>
            /\ sub'.form = sub.form
            /\ isLoading' = isLoading
        /\ (sub.pc \in {"upload_err", "insert_err"} /\ ~Submitting') =>
            /\ UNCHANGED <<fields, location>>
            /\ toast' = "create_error"
            /\ Mounted => ~isLoading'
        /\ (Submitting /\ ~Submitting') =>
            \/ sub.pc \in {"upload_err", "insert_err"}
            \/ sub.pc = "insert_ok" /\ location' = "/profile" /\ UNCHANGED fields
       ]_vars
  /\ Submitting ~> (~Submitting /\ (Mounted => ~isLoading))

\* A submission has failed and the form is back in Editing with the values
\* that were entered.
C11_Witness ==
  /\ page = "create" /\ Mounted
  /\ ~Submitting /\ ~isLoading
  /\ toast = "create_error"
  /\ Len(name) >= NameMin /\ image # Null
  /\ Cleaned(ingredients) # <<>> /\ Cleaned(instructions) # <<>>

\* The integer a text of an optional minus sign and decimal digits denotes,
\* by place value.
RECURSIVE Pow10(_)
Pow10(k) == IF k = 0 THEN 1 ELSE 10 * Pow10(k - 1)

Magnitude(ds) ==
  LET Place(i) == DigitValue(ds[i]) * Pow10(Len(ds) - i)
      Sum[i \in 0..Len(ds)] == IF i = 0 THEN 0 ELSE Sum[i - 1] + Place(i)
  IN Sum[Len(ds)]

IntegerOf(text) ==
  IF Head(text) = "-" THEN 0 - Magnitude(Tail(text)) ELSE Magnitude(text)

\* C12: a submission carries the values entered and the session user of the
\* moment it was submitted, and the row it inserts has user_id = that user,
\* name = the entered name, ingredients / instructions = the non-blank
\* entries in order, cooking_time = the integer the cooking-time text denotes
\* or null when the text is empty, category = the selected category or null
\* when none, image_url = null when no image was chosen and otherwise the
\* public URL of the object this submission has stored.
C12_InsertedRecord ==
  [][/\ StartsSubmission => (sub'.form = Form /\ sub'.user = user)
     /\ (page = "create" /\ Len(db') = Len(db) + 1) =>
          LET row == db'[1]
              f == sub.form
          IN /\ SubSeq(db', 2, Len(db')) = db
             /\ row.user_id = sub.user
             /\ row.name = f.name
             /\ IsNonBlankPart(row.ingredients, f.ingredients)
             /\ IsNonBlankPart(row.instructions, f.instructions)
             /\ row.cooking_time = IF f.cookingTime = <<>> THEN Null
                                   ELSE Num(IntegerOf(f.cookingTime))
             /\ row.category = IF f.category = <<>> THEN Null ELSE f.category
             /\ IF f.image = Null THEN row.image_url = Null
                ELSE /\ row.image_url.bucket = "recipe-images"
                     /\ row.image_url.key = sub.fileName
                     /\ row.image_url.key \in storage
                     /\ row.image_url.key.owner = sub.user
                     /\ row.image_url.key.ext = f.image.ext]_vars

\* The row inserted for the entries ["", "a"], the cooking time "20", no
\* category and no image.
C12_Witness ==
  /\ sub.pc = "insert_ok"
  /\ sub.form.ingredients = <<<<>>, <<"a">>>>
  /\ sub.form.cookingTime = <<"2", "0">>
  /\ db # <<>>
  /\ db[1].ingredients = <<<<"a">>>>
  /\ db[1].cooking_time = Num(20)
  /\ db[1].category = Null /\ db[1].image_url = Null

\* The text before the '@' of an email that has one.
LocalPart(email) ==
  LET at == CHOOSE k \in 1..Len(email) :
              email[k] = "@" /\ \A j \in 1..(k - 1) : email[j] # "@"
  IN SubSeq(email, 1, at - 1)

ExactlyOneProfile ==
  \A i \in 1..Len(authUsers) :
    Cardinality({k \in 1..Len(profiles) : profiles[k].user_id = authUsers[i].id}) = 1

\* The identity a step has inserted gets a profile whose username is the
\* signup's username when one was supplied, else the email's local part.
UsernameDefaulted ==
  \A i \in 1..Len(authUsers') :
    authUsers'[i].id \notin AuthIds =>
      \A k \in 1..Len(profiles') :
        profiles'[k].user_id = authUsers'[i].id =>
          profiles'[k].username =
            IF authUsers'[i].raw_user_meta_data.username # Null
            THEN authUsers'[i].raw_user_meta_data.username
            ELSE Text(LocalPart(authUsers'[i].email.text))

UsernameNonEmpty ==
  \A i \in 1..Len(authUsers') :
    authUsers'[i].id \notin AuthIds =>
      \A k \in 1..Len(profiles') :
        profiles'[k].user_id = authUsers'[i].id =>
          (profiles'[k].username # Null /\ profiles'[k].username.text # <<>>)

\* C13: over any sequence of signups, account deletions and statements of
\* the API every identity in auth.users has exactly one profile row; the
\* profile created for a new identity has the signup's username when one was
\* supplied and otherwise the email's local part; and that username is not
\* empty.
C13_OneProfilePerIdentity ==
  /\ []ExactlyOneProfile
  /\ [][UsernameDefaulted /\ UsernameNonEmpty]_vars

\* C14: every recipe's user_id is the user_id of an existing profile; when a
\* profile row goes (deleted itself, or with its identity) every recipe with
\* its user_id goes with it and the other recipes stay; and an insert of a
\* recipe whose user_id has no profile leaves the table unchanged.
C14_RecipesReferenceProfiles ==
  /\ [](\A i \in 1..Len(db) : db[i].user_id \in ProfileUserIds)
  /\ [][/\ (page = "backend" /\ ProfileUserIds' # ProfileUserIds /\ Len(db') <= Len(db)) =>
            db' = SelectSeq(db, LAMBDA r : r.user_id \in ProfileUserIds')
        /\ (request'.op = "insert_recipe" /\ request'.user_id \notin ProfileUserIds) =>
            db' = db]_vars

\* The owner's own insert has just been refused because the owner's profile
\* row is gone while the identity exists.
C14_Witness ==
  /\ request.op = "insert_recipe"
  /\ request.caller = request.user_id
  /\ request.user_id \in AuthIds
  /\ request.user_id \notin ProfileUserIds
  /\ db = <<>> /\ dbOps = MaxDbOps

\* new is old with one empty string after it.
IsWithEmptyAtEnd(new, old) ==
  /\ Len(new) = Len(old) + 1
  /\ new[Len(new)] = <<>>
  /\ \A j \in 1..Len(old) : new[j] = old[j]

\* new is old less the entry in position index.
IsWithout(new, old, index) ==
  /\ Len(new) = Len(old) - 1
  /\ \A j \in 1..Len(new) : new[j] = IF j < index THEN old[j] ELSE old[j + 1]

\* What add and remove(index) make of a list.
EntryListLaw(old, new, added, removed(_)) ==
  /\ added => IsWithEmptyAtEnd(new, old)
  /\ \A index \in 1..MaxEntries :
       removed(index) => IF Len(old) > 1 THEN IsWithout(new, old, index) ELSE new = old
  /\ Len(new) # Len(old) =>
       \/ IsWithEmptyAtEnd(new, old)
       \/ Len(old) > 1 /\ \E index \in 1..Len(old) : IsWithout(new, old, index)

\* C15: the ingredients list and the instructions list have at least one
\* entry after any sequence of add, remove and update; add appends exactly
\* one empty string and leaves the earlier entries as they are; remove(index)
\* deletes exactly the entry in that position when the list has more than
\* one entry and changes nothing when it has one; nothing else changes the
\* number of entries.
C15_ListsKeepAnEntry ==
  /\ [](Len(ingredients) >= 1 /\ Len(instructions) >= 1)
  /\ [][/\ EntryListLaw(ingredients, ingredients', addIngredient, removeIngredient)
        /\ EntryListLaw(instructions, instructions', addInstruction, removeInstruction)
       ]_vars

\* An ingredient was entered and an empty one added after it, and every edit
\* of the form has been spent, so that an instruction was added and removed
\* or a remove was tried on a single entry.
C15_Witness ==
  /\ ingredients = <<<<"a">>, <<>>>>
  /\ instructions = <<<<"s">>>>
  /\ name = <<>> /\ cookingTime = <<>> /\ category = <<>> /\ image = Null
  /\ edits = MaxEdits

\* C16: every recipe row persisted through CreateRecipe has cooking_time
\* null or a non-negative integer.
C16_CookingTimeNonNegative ==
  page = "create" =>
    \A i \in 1..Len(db) :
      \/ db[i].cooking_time = Null
      \/ db[i].cooking_time # NaN /\ db[i].cooking_time.num >= 0

\* C17: a delete whose row is already gone changes nothing in the table;
\* and when the page has issued its list fetch and two deletes of one recipe
\* and nothing else, the completion of the second successful delete leaves
\* the view as the first left it: the recipe is in neither the table nor the
\* view, and every recipe of the view is still in the table.
C17_SecondDeleteIsNoOp ==
  [][\A i \in 1..Len(deletes) :
       /\ (DeleteReply(i) /\ deletes[i].recipeId \notin Ids(db)) => db' = db
       /\ (/\ DeleteDone(i)
           /\ Mounted
           /\ deletes[i].stage = "ok"
           /\ deletes[i].recipeId \in deletedOk
           /\ issued = 3) =>
            /\ recipes' = recipes
            /\ toast' = "deleted"
            /\ deletes[i].recipeId \notin Ids(recipes')
            /\ deletes[i].recipeId \notin Ids(db')
            /\ Ids(recipes') \subseteq Ids(db')]_vars

\* Two deletes of one recipe were in flight at once; the first has completed
\* and the second has been answered without error; another recipe is in the
\* view.
C17_Witness ==
  /\ page = "profile" /\ Mounted
  /\ issued = 3 /\ fetches = <<>>
  /\ Len(deletes) = 1
  /\ deletes[1].stage = "ok"
  /\ deletes[1].recipeId \in deletedOk
  /\ deletes[1].recipeId \notin Ids(db)
  /\ deletes[1].recipeId \notin Ids(recipes)
  /\ recipes # <<>>

\* The rows of the table with the primary key id.
RowsWithId(id) == {i \in 1..Len(db) : db[i].id = id}

\* C18: a statement of the API inserts a recipe row only with user_id = the
\* caller's identity, and deletes or updates a row only when the caller's
\* identity is the row's user_id (an updated row keeps that user_id); an
\* insert for another user_id, and a delete or update of a row by a caller
\* who is not its owner, leave the recipes table unchanged.
C18_OwnerOnlyWrites ==
  [][/\ request'.op = "insert_recipe" =>
          /\ db' # db => (db' = <<db'[1]>> \o db /\ db'[1].user_id = request'.caller)
          /\ request'.user_id # request'.caller => db' = db
     /\ request'.op = "delete_recipe" =>
          /\ \A i \in 1..Len(db) :
               (\A k \in 1..Len(db') : db'[k] # db[i]) =>
                 (db[i].user_id = request'.caller /\ db[i].id = request'.id)
          /\ (\A i \in RowsWithId(request'.id) : db[i].user_id # request'.caller) =>
               db' = db
     /\ request'.op = "update_recipe" =>
          /\ Len(db') = Len(db)
          /\ \A i \in 1..Len(db) :
               db'[i] # db[i] =>
                 /\ db[i].user_id = request'.caller /\ db[i].id = request'.id
                 /\ db'[i].user_id = request'.caller
          /\ (\A i \in RowsWithId(request'.id) : db[i].user_id # request'.caller) =>
               db' = db]_vars

\* A signed-in caller has asked to delete another user's recipe, and the
\* row is still there.
C18_Witness ==
  /\ request.op = "delete_recipe"
  /\ request.caller \in Users
  /\ \E i \in RowsWithId(request.id) : db[i].user_id # request.caller

\* No row of recipes has the public URL of the object key.
Unreferenced(key) ==
  \A i \in 1..Len(db) : db[i].image_url = Null \/ db[i].image_url.key # key

\* C19: no step of CreateRecipe removes an object from the bucket; when a
\* submission whose upload was stored ends with a failed insert, its object
\* is still in the bucket and no recipe row references it.
C19_OrphanIsKept ==
  [][/\ storage \subseteq storage'
     /\ (sub.pc = "insert_err" /\ sub'.pc = "idle" /\ sub.fileName # Null) =>
          /\ sub.fileName \in storage'
          /\ Unreferenced(sub.fileName)']_vars

\* The submission is over with the error shown, and the bucket holds an
\* object no recipe row references.
C19_Witness ==
  /\ page = "create"
  /\ sub = Idle /\ toast = "create_error"
  /\ \E key \in storage : Unreferenced(key)

\* C20: on the mounted form isLoading is true whenever a submission is
\* pending; a submission starts only when none is pending; a submission
\* sends its insert once (from the submit itself or after its upload); a
\* successful insert adds exactly one row; and the table never has more rows
\* than there were submissions.
C20_OneSubmissionInFlight ==
  /\ []((page = "create" /\ Mounted /\ Submitting) => isLoading)
  /\ []((page = "create") => Len(db) <= issued)
  /\ [][/\ (page = "create" /\ issued' # issued) =>
            (~Submitting /\ ~isLoading /\ issued' = issued + 1 /\ Submitting')
        /\ IssuesInsert => sub.pc \in {"idle", "upload_ok"}
        /\ IssuesUpload => sub.pc = "idle"
        /\ (sub.pc = "insert_sent" /\ sub'.pc = "insert_ok") => Len(db') = Len(db) + 1
        /\ (page = "create" /\ db' # db) =>
            (sub.pc = "insert_sent" /\ sub'.pc = "insert_ok")
        /\ sub.pc \in {"insert_ok", "insert_err"} => sub' \in {sub, Idle}]_vars

\* A submission's insert is pending on the mounted form, whose values are
\* still valid and whose user is signed in: only the disabled button keeps a
\* second submission from starting.
C20_Witness ==
  /\ page = "create" /\ Mounted /\ ~authLoading
  /\ user # NoUser
  /\ sub.pc = "insert_sent" /\ isLoading
  /\ issued < MaxSubmits
  /\ SafeParse(SchemaInput(Form)) = <<>>

====
